---- MODULE Spec2Model ----
(***************************************************************************)
(* Model of backend/main.py: the session table of the construction-safety  *)
(* analysis service, its three request handlers (analyze, chat, delete)    *)
(* running on one asyncio event loop, and the keyword parsing helpers.     *)
(*                                                                         *)
(* Text is modelled as a sequence of one-character strings, so that        *)
(* str.strip, str.lower, str.split and str.join are computed and not       *)
(* assumed.                                                                *)
(***************************************************************************)
EXTENDS Integers, Sequences, FiniteSets, TLC

VARIABLES sessions, files, waiting, pc, req, loc, calls, resp, running, used,
          deleted, chatOk, raw, out, kdone

vars == <<sessions, files, waiting, pc, req, loc, calls, resp, running, used,
          deleted, chatOk, raw, out, kdone>>

srvVars == <<sessions, files, waiting, pc, req, loc, calls, resp, running, used,
             deleted, chatOk>>
kwVars == <<raw, out, kdone>>

(***************************************************************************)
(* Bounds of the model.                                                    *)
(***************************************************************************)
\* number of session ids uuid4 can hand out in one run
MaxIds == 2
\* number of requests that can be in flight at once
NReq == 2
\* successful chat turns, over all sessions, after which no further chat
\* request on a session is started
MaxTurns == 2
\* length of the enumerated model responses fed to the keyword parser
MaxRawLen == 5

Ids == 1..MaxIds
Reqs == 1..NReq

(***************************************************************************)
(* Text helpers: Python's str methods on sequences of characters.          *)
(***************************************************************************)
Whitespace == {" ", "\n"}

UpperCase == <<"A", "B", "C", "D", "E", "F", "G", "H", "I", "J", "K", "L", "M",
               "N", "O", "P", "Q", "R", "S", "T", "U", "V", "W", "X", "Y", "Z">>
LowerCase == <<"a", "b", "c", "d", "e", "f", "g", "h", "i", "j", "k", "l", "m",
               "n", "o", "p", "q", "r", "s", "t", "u", "v", "w", "x", "y", "z">>

LowerChar(c) ==
    IF \E i \in 1..26 : UpperCase[i] = c
    THEN LowerCase[CHOOSE i \in 1..26 : UpperCase[i] = c]
    ELSE c

\* str.lower()
Lower(s) == [i \in 1..Len(s) |-> LowerChar(s[i])]

RECURSIVE LStrip(_)
LStrip(s) ==
    IF s # <<>> /\ Head(s) \in Whitespace THEN LStrip(Tail(s)) ELSE s

RECURSIVE RStrip(_)
RStrip(s) ==
    IF s # <<>> /\ s[Len(s)] \in Whitespace
    THEN RStrip(SubSeq(s, 1, Len(s) - 1))
    ELSE s

\* str.strip()
Strip(s) == RStrip(LStrip(s))

\* str.split(sep) for a one-character separator: scans s left to right, cur is
\* the piece being read and acc the pieces closed so far; always yields at
\* least one piece.
RECURSIVE SplitFrom(_, _, _, _)
SplitFrom(s, sep, cur, acc) ==
    IF s = <<>> THEN Append(acc, cur)
    ELSE IF Head(s) = sep
         THEN SplitFrom(Tail(s), sep, <<>>, Append(acc, cur))
         ELSE SplitFrom(Tail(s), sep, Append(cur, Head(s)), acc)

Split(s, sep) == SplitFrom(s, sep, <<>>, <<>>)

\* sep.join(items)
RECURSIVE Join(_, _)
Join(items, sep) ==
    IF items = <<>> THEN <<>>
    ELSE IF Len(items) = 1 THEN items[1]
    ELSE items[1] \o sep \o Join(Tail(items), sep)

\* the list comprehension [f(p) for p in parts if keep(p)] of line 132
RECURSIVE StripLowerNonEmpty(_)
StripLowerNonEmpty(parts) ==
    IF parts = <<>> THEN <<>>
    ELSE IF Strip(Head(parts)) # <<>>
         THEN <<Lower(Strip(Head(parts)))>> \o StripLowerNonEmpty(Tail(parts))
         ELSE StripLowerNonEmpty(Tail(parts))

\* the loop without its membership test
DedupLoopKeepAll(parts, seen, acc) == acc \o parts

\* the loop of lines 133-137: seen is the set, acc the list built so far
RECURSIVE DedupLoop(_, _, _)
DedupLoop(parts, seen, acc) ==
    IF parts = <<>> THEN acc
    ELSE IF Head(parts) \notin seen
         THEN DedupLoop(Tail(parts), seen \cup {Head(parts)}, Append(acc, Head(parts)))
         ELSE DedupLoop(Tail(parts), seen, acc)

\* the slice bound of out[:5]
MaxKeywords == 5

\* out[:n]
Take(s, n) == SubSeq(s, 1, IF Len(s) < n THEN Len(s) ELSE n)

\* a stock keyword returned when the response holds none
ParseProposalFallback(content) ==
    LET rawText == Strip(content)
        parts == StripLowerNonEmpty(Split(rawText, ","))
        deduped == DedupLoop(parts, {}, <<>>)
    IN  IF deduped # <<>> THEN Take(deduped, MaxKeywords) ELSE <<<<"s", "i", "t", "e">>>>

\* propose_keywords_from_image, from the model's response content on
ParseProposal(content) ==
    LET rawText == Strip(content)
        parts == StripLowerNonEmpty(Split(rawText, ","))
        deduped == DedupLoop(parts, {}, <<>>)
    IN  IF deduped # <<>> THEN Take(deduped, MaxKeywords) ELSE <<>>

\* the user-keyword branch of analyze_image
KeywordGiven(keyword) == keyword # <<>> /\ Strip(keyword) # <<>>

\* the keyword lowercased but not stripped
UserKeywordsUnstripped(keyword) == <<Lower(keyword)>>

UserKeywords(keyword) == <<Lower(Strip(keyword))>>

(***************************************************************************)
(* Inputs of the service: uploads, keywords, chat messages, and what the   *)
(* vision model and the file system can answer.                            *)
(***************************************************************************)
\* "no helmet", written with stray case and blanks as a user may type it
KwNoHelmet == <<" ", "N", "o", " ", "H", "e", "l", "m", "e", "t", " ">>
Keywords == {<<>>, <<" ", "\n">>, KwNoHelmet}

\* the chat messages sent by request number r: the number in the text tells
\* the messages of concurrent requests apart
Digit == <<"1", "2", "3", "4", "5", "6", "7", "8", "9">>
MessagesOn(r) == {<<"q", Digit[r]>>, <<" ", "W", Digit[r]>>}

\* the response of the spec's scenario: "No Helmet, No Helmet, Trip Hazard"
ReplyHelmets ==
    <<"N", "o", " ", "H", "e", "l", "m", "e", "t", ",", " ",
      "N", "o", " ", "H", "e", "l", "m", "e", "t", ",", " ",
      "T", "r", "i", "p", " ", "H", "a", "z", "a", "r", "d">>
\* more than five distinct items, with a late repeat
ReplySeven ==
    <<"a", ",", "B", ",", "c", ",", "a", ",", "d", ",", "e", ",", "f", ",", "g">>
\* nothing usable
ReplyBlank == <<" ", ",", " ", ",">>

DescriptionReplies == {<<" ", "o", "k", "\n">>}

\* the assistant's answer to a chat message: it quotes the message it answers
ChatReply(m) == <<" ", "r", ":">> \o m \o <<"\n">>

\* what llm.invoke can do: return text, return content that is not a str
\* (resp.content may be a list of blocks), or raise
LlmOk(text) == [kind |-> "text", content |-> text]
LlmNonText == [kind |-> "blocks", content |-> <<>>]
LlmRaises == [kind |-> "raise", content |-> <<>>]
LlmOutcomes(texts) == {LlmOk(t) : t \in texts} \cup {LlmNonText, LlmRaises}

\* image bytes, by what PIL makes of them
Jpeg1 == [fmt |-> "JPEG", mode |-> "RGB", pix |-> "site1"]
Png2 == [fmt |-> "PNG", mode |-> "RGBA", pix |-> "site2"]
Gif3 == [fmt |-> "GIF", mode |-> "P", pix |-> "site3"]
Corrupt == [fmt |-> "corrupt", mode |-> "none", pix |-> "none"]
NoImage == [fmt |-> "none", mode |-> "none", pix |-> "none"]

FnJpg == <<"s", ".", "j", "p", "g">>
FnPng == <<"a", ".", "b", ".", "p", "n", "g">>
FnGif == <<"g", ".", "g", "i", "f">>

Upload(ct, fn, b) == [content_type |-> ct, filename |-> fn, bytes |-> b]
NoUpload == Upload("none", <<>>, NoImage)
\* a JPEG and a PNG of two different sites, an undecodable file declared
\* image/jpg, and a GIF
Uploads ==
    { Upload("image/jpeg", FnJpg, Jpeg1),
      Upload("image/png", FnPng, Png2),
      Upload("image/jpg", FnJpg, Corrupt),
      Upload("image/gif", FnGif, Gif3) }

\* the keywords sent along with an upload
KeywordsWith(u) ==
    IF u.bytes = Jpeg1 THEN Keywords
    ELSE IF u.bytes = Gif3 THEN {KwNoHelmet}
    ELSE {<<>>}

\* what the vision model proposes depends on what the picture shows
ProposalReplies(image_b64) ==
    IF image_b64.pix = "site1" THEN {ReplyHelmets} ELSE {ReplyBlank}

\* line 161
AllowedTypes == {"image/jpeg", "image/jpg", "image/png"}

\* image_to_b64: open and decode, convert to RGB, save as PNG, base64
Decodable(b) == b.fmt \in {"JPEG", "PNG", "GIF"}
ImageToB64(b) == [fmt |-> "PNG", mode |-> "RGB", pix |-> b.pix]

\* lines 164-166: the path of the temporary file
FileExtension(filename) ==
    LET pieces == Split(filename, ".") IN pieces[Len(pieces)]
ImagePath(id, filename) == <<id, FileExtension(filename)>>

\* what opening and writing the temporary file can do
WriteOutcomes == {"written", "open_fails", "copy_fails"}
\* what os.remove can do
RemoveOutcomes == {"removed", "remove_fails"}

(***************************************************************************)
(* Prompt payloads: what is handed to llm.invoke.                          *)
(***************************************************************************)
Text(t) == [tmpl |-> "text", args |-> <<t>>]
Message(role, content, image) == [role |-> role, content |-> content, image |-> image]
SystemMessage(content) == Message("system", content, NoImage)
HumanMessage(content) == Message("human", content, NoImage)

\* the text sent without its image
VisionMessagesNoImage(image_b64, user_text) == <<Message("human", user_text, NoImage)>>

\* vision_messages_from_b64
VisionMessages(image_b64, user_text) == <<Message("human", user_text, image_b64)>>

\* the messages of propose_keywords_from_image
ProposalPayload(image_b64) ==
    <<SystemMessage([tmpl |-> "propose_system", args |-> <<>>])>>
    \o VisionMessages(image_b64, [tmpl |-> "PROPOSAL_PROMPT", args |-> <<>>])

KwSep == <<",", " ">>
NoneMarker == <<"n", "o", "n", "e">>

\* the messages of generate_description
DescriptionPayload(image_b64, keywords) ==
    LET kw_text == IF keywords # <<>> THEN Join(keywords, KwSep) ELSE NoneMarker
    IN  <<SystemMessage([tmpl |-> "SYSTEM_PROMPT", args |-> <<>>])>>
        \o VisionMessages(image_b64, [tmpl |-> "DESCRIPTION_PROMPT", args |-> <<kw_text>>])

\* lines 205-209: one prior entry, replayed
ReplayEntry(entry) ==
    IF entry.role = "user"
    THEN HumanMessage(Text(entry.content))
    ELSE SystemMessage(Text(entry.content))

\* the messages without the recap of the initial analysis
ChatPayloadNoRecap(session, message) ==
    <<SystemMessage([tmpl |-> "CHAT_SYSTEM_PROMPT", args |-> <<>>])>>
    \o [i \in 1..Len(session.chat_history) |-> ReplayEntry(session.chat_history[i])]
    \o VisionMessages(session.image_b64, Text(message))

\* lines 201-210: the messages of chat_about_image
ChatPayload(session, message) ==
    <<SystemMessage([tmpl |-> "CHAT_SYSTEM_PROMPT", args |-> <<>>]),
      HumanMessage([tmpl |-> "recap",
                    args |-> <<Join(session.keywords, KwSep), session.description>>])>>
    \o [i \in 1..Len(session.chat_history) |-> ReplayEntry(session.chat_history[i])]
    \o VisionMessages(session.image_b64, Text(message))

(***************************************************************************)
(* State of the service.                                                   *)
(***************************************************************************)
NoPath == <<0, <<>>>>

SessionData(id, path, b64, keywords, description, history) ==
    [session_id |-> id, image_path |-> path, image_b64 |-> b64,
     keywords |-> keywords, description |-> description, chat_history |-> history]

Entry(role, content) == [role |-> role, content |-> content]

Request(op, id, message, upload, keyword) ==
    [op |-> op, session_id |-> id, message |-> message, upload |-> upload,
     keyword |-> keyword]
NoRequest == Request("none", 0, <<>>, NoUpload, <<>>)

AnalyzeRequests ==
    UNION {{Request("analyze", 0, <<>>, u, k) : k \in KeywordsWith(u)} : u \in Uploads}
ChatRequests(r) ==
    {Request("chat", id, m, NoUpload, <<>>) : id \in Ids, m \in MessagesOn(r)}
DeleteRequests == {Request("delete", id, <<>>, NoUpload, <<>>) : id \in Ids}

\* the local variables of a running handler
\* (proposal is raw of propose_keywords_from_image, the stripped response)
Locals(id, path, b64, proposal, keywords, description, messages, response_text) ==
    [session_id |-> id, image_path |-> path, image_b64 |-> b64, raw |-> proposal,
     keywords |-> keywords, description |-> description, messages |-> messages,
     response_text |-> response_text]
NoLocals == Locals(0, NoPath, NoImage, <<>>, <<>>, <<>>, <<>>, <<>>)

\* what a request is answered with
Response(status, id, keywords, description, response, history) ==
    [status |-> status, session_id |-> id, keywords |-> keywords,
     description |-> description, response |-> response, chat_history |-> history]
NoResponse == Response(0, 0, <<>>, <<>>, <<>>, <<>>)
ErrorResponse(status) == Response(status, 0, <<>>, <<>>, <<>>, <<>>)

HandlerPcs == {"a_validate", "a_write", "a_normalize", "a_keywords", "a_parse",
               "a_describe", "a_commit", "c_lookup", "c_invoke", "c_user", "c_assistant",
               "d_lookup", "d_remove", "d_drop"}

\* handlers that can be preempted between any two statements, as plain def
\* handlers run in the thread pool are
YieldsAlways(p) == TRUE

\* The handlers are coroutines (async def) whose bodies hold no await: once
\* the event loop has entered one, it runs to its return or raise.  Yields(p)
\* says whether a handler about to run step p gives the loop back first.
Yields(p) == FALSE

\* ids drawn without regard to the ids of deleted sessions
FreshIdsReuse(usedIds, table) == Ids \ DOMAIN table

\* the ids uuid4 can return: not one it has returned before
FreshIds(usedIds, table) == Ids \ usedIds

\* uuid.uuid4(): ids are opaque, so the n-th fresh id stands for any fresh id
Uuid4(usedIds, table) ==
    CHOOSE id \in FreshIds(usedIds, table) :
      \A other \in FreshIds(usedIds, table) : id <= other

Put(f, k, v) == [x \in DOMAIN f \cup {k} |-> IF x = k THEN v ELSE f[x]]
Drop(f, k) == [x \in DOMAIN f \ {k} |-> f[x]]

InitService ==
    /\ sessions = <<>>
    /\ files = <<>>
    /\ waiting = 0
    /\ pc = [r \in Reqs |-> "idle"]
    /\ req = [r \in Reqs |-> NoRequest]
    /\ loc = [r \in Reqs |-> NoLocals]
    /\ calls = [r \in Reqs |-> <<>>]
    /\ resp = [r \in Reqs |-> NoResponse]
    /\ running = 0
    /\ used = {}
    /\ deleted = {}
    /\ chatOk = [id \in Ids |-> 0]

Init ==
    /\ InitService
    /\ raw = <<>>
    /\ out = <<>>
    /\ kdone = FALSE

\* the event loop may run a step of handler r
CanStep(r) == running = r \/ (running = 0 /\ pc[r] \in HandlerPcs)

\* handler r goes on to step p
Goto(r, p) ==
    /\ pc' = [pc EXCEPT ![r] = p]
    /\ running' = IF Yields(p) THEN 0 ELSE r

\* handler r returns or raises: the request is answered
Finish(r, response) ==
    /\ pc' = [pc EXCEPT ![r] = "done"]
    /\ resp' = [resp EXCEPT ![r] = response]
    /\ loc' = [loc EXCEPT ![r] = NoLocals]
    /\ running' = 0

\* the user entry appended before the model is called
ChatOrderUserFirst == <<"c_lookup", "c_user", "c_invoke", "c_assistant">>

\* the record dropped before the file is removed
DeleteOrderDropFirst == <<"d_lookup", "d_drop", "d_remove">>

\* the record dropped and the file left in place
DeleteOrderKeepsFile == <<"d_lookup", "d_drop">>

\* The statements of chat_about_image and of delete_session, in source order.
ChatOrder == <<"c_lookup", "c_invoke", "c_user", "c_assistant">>
DeleteOrder == <<"d_lookup", "d_remove", "d_drop">>

Order(op) == IF op = "chat" THEN ChatOrder ELSE DeleteOrder

\* the step that follows p in a handler, "done" after its last
StepAfter(order, p) ==
    LET i == CHOOSE j \in 1..Len(order) : order[j] = p
    IN  IF i = Len(order) THEN "done" ELSE order[i + 1]

\* handler r has run its step: it goes on with new locals, or returns response
Advance(r, response, locals) ==
    LET p == StepAfter(Order(req[r].op), pc[r])
    IN  IF p = "done"
        THEN Finish(r, response)
        ELSE /\ Goto(r, p)
             /\ loc' = [loc EXCEPT ![r] = locals]
             /\ resp' = resp

Returns(r) == StepAfter(Order(req[r].op), pc[r]) = "done"

RECURSIVE SumOver(_, _)
SumOver(f, S) ==
    IF S = {} THEN 0
    ELSE LET x == CHOOSE y \in S : TRUE IN f[x] + SumOver(f, S \ {x})

\* chat turns taken or being taken, over all sessions
TurnsTaken ==
    SumOver(chatOk, Ids)
    + Cardinality({x \in Reqs : req[x].op = "chat" /\ pc[x] \in HandlerPcs})

\* the connections whose request is inside its handler
Busy == {x \in Reqs : pc[x] \in HandlerPcs}

\* the analyze handlers that have yet to draw their session id
Drawing == {x \in Reqs : pc[x] = "a_validate"}

\* A request arrives while the event loop is idle or busy in a handler: it
\* waits unread, and its content is read when the loop takes it up.  waiting
\* is 1 when a request waits unread and 0 when none does; the requests behind
\* the first are not counted, as one that arrives right after a request is
\* read stands for them.
Arrive ==
    /\ waiting = 0
    /\ Cardinality(Busy) < NReq
    /\ waiting' = 1
    /\ UNCHANGED <<sessions, files, pc, req, loc, calls, resp, running, used, deleted,
                   chatOk, kwVars>>

\* The event loop reads a waiting request and enters its handler.  The
\* connections are interchangeable, so the request is numbered r, the lowest
\* number not inside a handler.  A response stays readable until then.
Accept(r) ==
    /\ waiting > 0
    /\ running = 0
    /\ r \notin Busy
    /\ \A x \in Reqs : x < r => x \in Busy
    /\ \E q \in AnalyzeRequests \cup ChatRequests(r) \cup DeleteRequests :
         /\ q.op = "analyze" =>
              Cardinality(FreshIds(used, sessions)) > Cardinality(Drawing)
         /\ q.op = "chat" /\ q.session_id \in DOMAIN sessions => TurnsTaken < MaxTurns
         /\ req' = [x \in Reqs |-> IF x = r THEN q
                                   ELSE IF pc[x] = "done" THEN NoRequest ELSE req[x]]
         /\ pc' = [x \in Reqs |->
                     IF x = r
                     THEN IF q.op = "analyze" THEN "a_validate" ELSE Order(q.op)[1]
                     ELSE IF pc[x] = "done" THEN "idle" ELSE pc[x]]
         /\ running' = IF Yields(pc'[r]) THEN 0 ELSE r
    /\ waiting' = 0
    /\ resp' = [x \in Reqs |-> IF pc[x] = "done" THEN NoResponse ELSE resp[x]]
    /\ calls' = [x \in Reqs |-> IF pc[x] = "done" THEN <<>> ELSE calls[x]]
    /\ UNCHANGED <<sessions, files, loc, used, deleted, chatOk, kwVars>>

(***************************************************************************)
(* analyze_image                                                           *)
(***************************************************************************)
\* any image/* content type let through
SupportedTypeAnyImage(ct) == ct \in AllowedTypes \cup {"image/gif"}

\* line 161
SupportedType(ct) == ct \in AllowedTypes

\* lines 161-166: content type check, session id and file name
AnalyzeValidate(r) ==
    /\ pc[r] = "a_validate" /\ CanStep(r)
    /\ IF ~SupportedType(req[r].upload.content_type)
       THEN /\ Finish(r, ErrorResponse(400))
            /\ UNCHANGED used
       ELSE LET id == Uuid4(used, sessions)
            IN
              /\ used' = used \cup {id}
              /\ loc' = [loc EXCEPT ![r] =
                           Locals(id, ImagePath(id, req[r].upload.filename), NoImage,
                                  <<>>, <<>>, <<>>, <<>>, <<>>)]
              /\ Goto(r, "a_write")
              /\ resp' = resp
    /\ UNCHANGED <<sessions, files, waiting, req, calls, deleted, chatOk, kwVars>>

\* lines 168-169: open the temporary file and copy the upload into it
AnalyzeWrite(r) ==
    /\ pc[r] = "a_write" /\ CanStep(r)
    /\ \E o \in WriteOutcomes :
         CASE o = "written" ->
                /\ files' = Put(files, loc[r].image_path, req[r].upload.bytes)
                /\ Goto(r, "a_normalize")
                /\ UNCHANGED <<loc, resp>>
           [] o = "open_fails" ->
                /\ Finish(r, ErrorResponse(500))
                /\ files' = files
           [] OTHER ->
                /\ files' = Put(files, loc[r].image_path, Corrupt)
                /\ Finish(r, ErrorResponse(500))
    /\ UNCHANGED <<sessions, waiting, req, calls, used, deleted, chatOk, kwVars>>

\* line 170: image_to_b64 of the file just written
AnalyzeNormalize(r) ==
    /\ pc[r] = "a_normalize" /\ CanStep(r)
    /\ IF loc[r].image_path \in DOMAIN files /\ Decodable(files[loc[r].image_path])
       THEN /\ loc' = [loc EXCEPT ![r].image_b64 = ImageToB64(files[loc[r].image_path])]
            /\ Goto(r, "a_keywords")
            /\ resp' = resp
       ELSE Finish(r, ErrorResponse(500))
    /\ UNCHANGED <<sessions, files, waiting, req, calls, used, deleted, chatOk, kwVars>>

\* lines 171-174: the user's keyword, or the proposal call of lines 125-131
AnalyzeKeywords(r) ==
    /\ pc[r] = "a_keywords" /\ CanStep(r)
    /\ IF KeywordGiven(req[r].keyword)
       THEN /\ loc' = [loc EXCEPT ![r].keywords = UserKeywords(req[r].keyword)]
            /\ Goto(r, "a_describe")
            /\ UNCHANGED <<calls, resp>>
       ELSE \E o \in LlmOutcomes(ProposalReplies(loc[r].image_b64)) :
              /\ calls' = [calls EXCEPT ![r] = Append(@, ProposalPayload(loc[r].image_b64))]
              /\ IF o.kind = "text"
                 THEN /\ loc' = [loc EXCEPT ![r].raw = Strip(o.content)]
                      /\ Goto(r, "a_parse")
                      /\ resp' = resp
                 ELSE Finish(r, ErrorResponse(500))
    /\ UNCHANGED <<sessions, files, waiting, req, used, deleted, chatOk, kwVars>>

\* lines 132-138: the keywords parsed from the proposal
AnalyzeParse(r) ==
    /\ pc[r] = "a_parse" /\ CanStep(r)
    /\ loc' = [loc EXCEPT ![r].keywords = ParseProposal(loc[r].raw)]
    /\ Goto(r, "a_describe")
    /\ UNCHANGED <<sessions, files, waiting, req, calls, resp, used, deleted, chatOk,
                   kwVars>>

\* the session stored before its description is asked for
AnalyzeDescribeStoresFirst(r) ==
    /\ pc[r] = "a_describe" /\ CanStep(r)
    /\ sessions' = Put(sessions, loc[r].session_id,
                       SessionData(loc[r].session_id, loc[r].image_path, loc[r].image_b64,
                                   loc[r].keywords, <<>>, <<>>))
    /\ \E o \in LlmOutcomes(DescriptionReplies) :
         /\ calls' = [calls EXCEPT ![r] =
                        Append(@, DescriptionPayload(loc[r].image_b64, loc[r].keywords))]
         /\ IF o.kind = "text"
            THEN /\ loc' = [loc EXCEPT ![r].description = Strip(o.content)]
                 /\ Goto(r, "a_commit")
                 /\ resp' = resp
            ELSE Finish(r, ErrorResponse(500))
    /\ UNCHANGED <<files, waiting, req, used, deleted, chatOk, kwVars>>

\* line 175: generate_description
AnalyzeDescribe(r) ==
    /\ pc[r] = "a_describe" /\ CanStep(r)
    /\ \E o \in LlmOutcomes(DescriptionReplies) :
         /\ calls' = [calls EXCEPT ![r] =
                        Append(@, DescriptionPayload(loc[r].image_b64, loc[r].keywords))]
         /\ IF o.kind = "text"
            THEN /\ loc' = [loc EXCEPT ![r].description = Strip(o.content)]
                 /\ Goto(r, "a_commit")
                 /\ resp' = resp
            ELSE Finish(r, ErrorResponse(500))
    /\ UNCHANGED <<sessions, files, waiting, req, used, deleted, chatOk, kwVars>>

\* lines 176-189: store the session and answer
AnalyzeCommit(r) ==
    /\ pc[r] = "a_commit" /\ CanStep(r)
    /\ sessions' = Put(sessions, loc[r].session_id,
                       SessionData(loc[r].session_id, loc[r].image_path, loc[r].image_b64,
                                   loc[r].keywords, loc[r].description, <<>>))
    /\ Finish(r, Response(200, loc[r].session_id, loc[r].keywords, loc[r].description,
                          <<>>, <<>>))
    /\ UNCHANGED <<files, waiting, req, calls, used, deleted, chatOk, kwVars>>

(***************************************************************************)
(* chat_about_image                                                        *)
(***************************************************************************)
\* the membership test left out
SessionKnownAlways(id, table) == TRUE

\* line 197
SessionKnown(id, table) == id \in DOMAIN table

\* the entry inserted at the front of the history
AppendedSessionFront(session, entry) ==
    [session EXCEPT !.chat_history = <<entry>> \o @]

\* the latest text also stored as the session's description
AppendedSessionClobber(session, entry) ==
    [session EXCEPT !.chat_history = Append(@, entry), !.description = entry.content]

\* lines 213-214: session.chat_history.append(entry)
AppendedSession(session, entry) ==
    [session EXCEPT !.chat_history = Append(@, entry)]

\* one history list shared by the sessions
TableAppendShared(table, id, entry) ==
    [x \in DOMAIN table |-> AppendedSession(table[x], entry)]

\* the table after an append through the handler's reference to the session
\* object; an object no longer in the table is garbage
TableAppend(table, id, entry) ==
    IF id \in DOMAIN table
    THEN [table EXCEPT ![id] = AppendedSession(@, entry)]
    ELSE table

HistoryOf(table, id) ==
    IF id \in DOMAIN table THEN table[id].chat_history ELSE <<>>

\* lines 216-219
ChatResponse(table, id, response_text) ==
    Response(200, id, <<>>, <<>>, response_text, HistoryOf(table, id))

\* lines 197-210: look the session up and build the messages
ChatLookup(r) ==
    /\ pc[r] = "c_lookup" /\ CanStep(r)
    /\ IF ~SessionKnown(req[r].session_id, sessions)
       THEN Finish(r, ErrorResponse(404))
       ELSE IF req[r].session_id \notin DOMAIN sessions
            THEN Finish(r, ErrorResponse(500))
            ELSE Advance(r, NoResponse,
                         [loc[r] EXCEPT
                            !.session_id = req[r].session_id,
                            !.messages = ChatPayload(sessions[req[r].session_id],
                                                     req[r].message)])
    /\ UNCHANGED <<sessions, files, waiting, req, calls, used, deleted, chatOk, kwVars>>

\* lines 211-212: the model call and resp.content.strip()
ChatInvoke(r) ==
    /\ pc[r] = "c_invoke" /\ CanStep(r)
    /\ \E o \in LlmOutcomes({ChatReply(req[r].message)}) :
         /\ calls' = [calls EXCEPT ![r] = Append(@, loc[r].messages)]
         /\ IF o.kind = "text"
            THEN Advance(r, ChatResponse(sessions, req[r].session_id, Strip(o.content)),
                         [loc[r] EXCEPT !.response_text = Strip(o.content)])
            ELSE Finish(r, ErrorResponse(500))
    /\ UNCHANGED <<sessions, files, waiting, req, used, deleted, chatOk, kwVars>>

\* a chat call that returns is a successful one
CountChat(r) ==
    chatOk' = IF Returns(r)
              THEN [chatOk EXCEPT ![req[r].session_id] = @ + 1]
              ELSE chatOk

\* line 213
ChatAppendUser(r) ==
    /\ pc[r] = "c_user" /\ CanStep(r)
    /\ LET table == TableAppend(sessions, req[r].session_id,
                                Entry("user", req[r].message))
       IN  /\ sessions' = table
           /\ Advance(r, ChatResponse(table, req[r].session_id, loc[r].response_text),
                      loc[r])
    /\ CountChat(r)
    /\ UNCHANGED <<files, waiting, req, calls, used, deleted, kwVars>>

\* lines 214-219
ChatAppendAssistant(r) ==
    /\ pc[r] = "c_assistant" /\ CanStep(r)
    /\ LET table == TableAppend(sessions, req[r].session_id,
                                Entry("assistant", loc[r].response_text))
       IN  /\ sessions' = table
           /\ Advance(r, ChatResponse(table, req[r].session_id, loc[r].response_text),
                      loc[r])
    /\ CountChat(r)
    /\ UNCHANGED <<files, waiting, req, calls, used, deleted, kwVars>>

(***************************************************************************)
(* delete_session                                                          *)
(***************************************************************************)
\* line 232
DeleteResponse(id) == Response(200, id, <<>>, <<>>, <<>>, <<>>)

\* a delete call that returns is a successful one
CountDelete(r) ==
    deleted' = IF Returns(r) THEN deleted \cup {req[r].session_id} ELSE deleted

\* lines 227-228, and 233 when the id is unknown
DeleteLookup(r) ==
    /\ pc[r] = "d_lookup" /\ CanStep(r)
    /\ IF req[r].session_id \in DOMAIN sessions
       THEN Advance(r, NoResponse,
                    [loc[r] EXCEPT
                       !.session_id = req[r].session_id,
                       !.image_path = sessions[req[r].session_id].image_path])
       ELSE Finish(r, ErrorResponse(404))
    /\ UNCHANGED <<sessions, files, waiting, req, calls, used, deleted, chatOk, kwVars>>

\* lines 229-230
DeleteRemove(r) ==
    /\ pc[r] = "d_remove" /\ CanStep(r)
    /\ IF loc[r].image_path \in DOMAIN files
       THEN \E o \in RemoveOutcomes :
              IF o = "removed"
              THEN /\ files' = Drop(files, loc[r].image_path)
                   /\ Advance(r, DeleteResponse(req[r].session_id), loc[r])
                   /\ CountDelete(r)
              ELSE /\ Finish(r, ErrorResponse(500))
                   /\ UNCHANGED <<files, deleted>>
       ELSE /\ Advance(r, DeleteResponse(req[r].session_id), loc[r])
            /\ CountDelete(r)
            /\ files' = files
    /\ UNCHANGED <<sessions, waiting, req, calls, used, chatOk, kwVars>>

\* lines 231-232
DeleteDrop(r) ==
    /\ pc[r] = "d_drop" /\ CanStep(r)
    /\ IF req[r].session_id \in DOMAIN sessions
       THEN /\ sessions' = Drop(sessions, req[r].session_id)
            /\ Advance(r, DeleteResponse(req[r].session_id), loc[r])
            /\ CountDelete(r)
       ELSE /\ Finish(r, ErrorResponse(500))
            /\ UNCHANGED <<sessions, deleted>>
    /\ UNCHANGED <<files, waiting, req, calls, used, chatOk, kwVars>>

(***************************************************************************)
(* The service.                                                            *)
(***************************************************************************)
Next ==
    \/ Arrive
    \/ \E r \in Reqs :
      \/ Accept(r)
      \/ AnalyzeValidate(r)
      \/ AnalyzeWrite(r)
      \/ AnalyzeNormalize(r)
      \/ AnalyzeKeywords(r)
      \/ AnalyzeParse(r)
      \/ AnalyzeDescribe(r)
      \/ AnalyzeCommit(r)
      \/ ChatLookup(r)
      \/ ChatInvoke(r)
      \/ ChatAppendUser(r)
      \/ ChatAppendAssistant(r)
      \/ DeleteLookup(r)
      \/ DeleteRemove(r)
      \/ DeleteDrop(r)

Spec == Init /\ [][Next]_vars

(***************************************************************************)
(* The keyword parser on its own: propose_keywords_from_image applied to   *)
(* every response over a small alphabet, and to the longer ones above.     *)
(***************************************************************************)
RawAlphabet == {"a", "A", "b", " ", ","}

RawInputs ==
    UNION {[1..n -> RawAlphabet] : n \in 0..MaxRawLen}
    \cup {ReplyHelmets, ReplySeven, ReplyBlank}

InitKw ==
    /\ InitService
    /\ raw \in RawInputs
    /\ out = <<>>
    /\ kdone = FALSE

\* lines 130-138, from the response on
Propose ==
    /\ ~kdone
    /\ out' = ParseProposal(raw)
    /\ kdone' = TRUE
    /\ UNCHANGED <<raw, srvVars>>

NextKw == Propose

SpecKw == InitKw /\ [][NextKw]_vars

(***************************************************************************)
(* Vocabulary of the properties, written from the specification's words    *)
(* and independently of the handlers above.                                *)
(***************************************************************************)
\* the k-th smallest element of a set of numbers
KthOf(S, k) == CHOOSE x \in S : Cardinality({y \in S : y <= x}) = k

\* the elements of seq at the positions K, in order
Pick(seq, K) == [k \in 1..Cardinality(K) |-> seq[KthOf(K, k)]]

\* s without its leading and trailing whitespace
Trimmed(s) ==
    LET solid == {i \in 1..Len(s) : s[i] \notin Whitespace}
    IN  IF solid = {} THEN <<>>
        ELSE SubSeq(s, KthOf(solid, 1), KthOf(solid, Cardinality(solid)))

Blank(s) == \A i \in 1..Len(s) : s[i] \in Whitespace

\* the pieces of s between its commas
CommaItems(s) ==
    LET cuts == {0, Len(s) + 1} \cup {i \in 1..Len(s) : s[i] = ","}
    IN  [k \in 1..(Cardinality(cuts) - 1) |->
           SubSeq(s, KthOf(cuts, k) + 1, KthOf(cuts, k + 1) - 1)]

\* the trimmed, lowercased, non-empty items of s
UsableItems(s) ==
    LET items == CommaItems(s)
        norm == [k \in 1..Len(items) |-> Lower(Trimmed(items[k]))]
    IN  Pick(norm, {k \in 1..Len(items) : norm[k] # <<>>})

\* seq without the repeats of earlier elements
FirstSeen(seq) ==
    Pick(seq, {k \in 1..Len(seq) : \A j \in 1..(k - 1) : seq[j] # seq[k]})

FirstFive(seq) == Pick(seq, {k \in 1..Len(seq) : k <= 5})

NoHelmet == <<"n", "o", " ", "h", "e", "l", "m", "e", "t">>
TripHazard == <<"t", "r", "i", "p", " ", "h", "a", "z", "a", "r", "d">>

\* roles alternate, starting with user
Alternates(h) ==
    \A i \in 1..Len(h) : h[i].role = IF i % 2 = 1 THEN "user" ELSE "assistant"

IsPrefix(h, g) == Len(h) <= Len(g) /\ SubSeq(g, 1, Len(h)) = h

\* a chat handler is at work on session id
InChat(id) ==
    \E r \in Reqs : req[r].op = "chat" /\ req[r].session_id = id /\ pc[r] \in HandlerPcs

\* handler r returns or raises in this step
Ends(r) == pc[r] \in HandlerPcs /\ pc'[r] = "done"

\* the system prompt of a payload tells which of the three calls it is
PayloadKind(payload) == payload[1].content.tmpl

\* the chat history a chat payload replays between its recap and its last message
ReplayedHistory(messages) ==
    [i \in 1..(Len(messages) - 3) |->
       Entry(IF messages[i + 2].role = "human" THEN "user" ELSE "assistant",
             messages[i + 2].content.args[1])]

(***************************************************************************)
(* Properties.                                                             *)
(***************************************************************************)
C1_QuiescentHistory ==
    \A id \in DOMAIN sessions :
      /\ Alternates(sessions[id].chat_history)
      /\ ~InChat(id) => Len(sessions[id].chat_history) = 2 * chatOk[id]

C1_AppendOnlyStep ==
    \A id \in DOMAIN sessions \cap DOMAIN sessions' :
      IsPrefix(sessions[id].chat_history, sessions'[id].chat_history)

\* C1: whenever no chat handler is at work on a session, its chat_history has
\* length 2N for the N chat calls on it that succeeded; its roles alternate
\* starting with user; and every step leaves the old history as a prefix of
\* the new one.
C1_HistoryPairs == [](C1_QuiescentHistory) /\ [][C1_AppendOnlyStep]_vars

\* two chat calls on one session have succeeded
C1_Witness ==
    \E id \in DOMAIN sessions :
      running = 0 /\ chatOk[id] = 2 /\ Len(sessions[id].chat_history) = 4

C2_FailedChatStep ==
    \A r \in Reqs :
      (Ends(r) /\ req[r].op = "chat" /\ pc[r] # "c_lookup") =>
        LET id == req[r].session_id
            before == ReplayedHistory(loc[r].messages)
            after == HistoryOf(sessions', id)
        IN  /\ id \in DOMAIN sessions'
            /\ resp'[r].status \in {200, 500}
            /\ resp'[r].status = 500 => after = before
            /\ resp'[r].status = 200 =>
                 after = before \o <<Entry("user", req[r].message),
                                     Entry("assistant", resp'[r].response)>>

\* C2: a chat call on an existing session that ends in failure after its model
\* call raised or returned unusable content leaves the session's chat_history
\* equal to the history it read when it built its messages; one that succeeds
\* leaves that history extended by its user entry and its assistant entry.
C2_FailedChatKeepsHistory == [][C2_FailedChatStep]_vars

\* a chat call failed on a session that already had a turn
C2_Witness ==
    \E r \in Reqs :
      /\ pc[r] = "done" /\ req[r].op = "chat" /\ resp[r].status = 500
      /\ Len(calls[r]) = 1
      /\ req[r].session_id \in DOMAIN sessions
      /\ Len(sessions[req[r].session_id].chat_history) = 2

C3_AfterDeleteStep ==
    \A r \in Reqs :
      (Ends(r) /\ req[r].op \in {"chat", "delete"} /\ req[r].session_id \in deleted) =>
        resp'[r].status = 404

\* C3: an id whose delete succeeded is never in the session table again, and
\* every chat or delete call that ends after that on the id ends with 404.
C3_DeletedIsTerminal ==
    [](deleted \cap DOMAIN sessions = {}) /\ [][C3_AfterDeleteStep]_vars

\* a chat call on a deleted id was refused while another session is active
C3_Witness ==
    \E r \in Reqs :
      /\ pc[r] = "done" /\ req[r].op = "chat" /\ resp[r].status = 404
      /\ req[r].session_id \in deleted
      /\ DOMAIN sessions # {}

C4_UnknownChatStep ==
    \A r \in Reqs :
      (req[r].op = "chat" /\ pc[r] = "c_lookup" /\ pc'[r] # "c_lookup"
         /\ req[r].session_id \notin DOMAIN sessions) =>
        /\ pc'[r] = "done"
        /\ resp'[r].status = 404
        /\ calls'[r] = <<>>
        /\ sessions' = sessions
        /\ files' = files

\* C4: a chat call whose session id is not in the table ends at its lookup
\* with 404, with no model call made and the table and the files unchanged.
C4_UnknownChatRefused == [][C4_UnknownChatStep]_vars

\* a chat call on an id never handed out was refused beside an active session
C4_Witness ==
    \E r \in Reqs :
      /\ pc[r] = "done" /\ req[r].op = "chat" /\ resp[r].status = 404
      /\ req[r].session_id \notin used
      /\ DOMAIN sessions # {}

\* C5: whenever no handler is running, every session in the table owns
\* exactly one existing temporary file and every temporary file belongs to a
\* session in the table.
C5_OneFilePerSession ==
    running = 0 =>
      /\ \A id \in DOMAIN sessions :
           /\ sessions[id].image_path \in DOMAIN files
           /\ Cardinality({p \in DOMAIN files : p[1] = id}) = 1
      /\ \A p \in DOMAIN files : p[1] \in DOMAIN sessions

C6_UnsupportedTypeStep ==
    \A r \in Reqs :
      (req[r].op = "analyze" /\ pc[r] = "a_validate" /\ pc'[r] # "a_validate"
         /\ req[r].upload.content_type \notin {"image/jpeg", "image/jpg", "image/png"}) =>
        /\ pc'[r] = "done"
        /\ resp'[r].status = 400
        /\ calls'[r] = <<>>
        /\ sessions' = sessions
        /\ files' = files
        /\ used' = used

\* C6: an analyze request whose content type is none of image/jpeg, image/jpg
\* and image/png ends at its first step with 400, with no model call made, no
\* session id drawn, and the table and the files unchanged.
C6_UnsupportedTypeRejected == [][C6_UnsupportedTypeStep]_vars

\* a GIF upload was rejected
C6_Witness ==
    \E r \in Reqs :
      /\ pc[r] = "done" /\ req[r].op = "analyze" /\ resp[r].status = 400
      /\ req[r].upload.content_type = "image/gif"
      /\ calls[r] = <<>>

\* C7: an analyze call that succeeded with a keyword that is not blank made
\* the description call only, and returned and stored the one-element list of
\* the trimmed, lowercased keyword; one that succeeded with an empty or blank
\* keyword made the proposal call and then the description call, and returned
\* what it stored.
C7_UserKeywordBypassesProposal ==
    \A r \in Reqs :
      (pc[r] = "done" /\ req[r].op = "analyze" /\ resp[r].status = 200) =>
        /\ resp[r].session_id \in DOMAIN sessions
        /\ sessions[resp[r].session_id].keywords = resp[r].keywords
        /\ IF ~Blank(req[r].keyword)
           THEN /\ resp[r].keywords = <<Lower(Trimmed(req[r].keyword))>>
                /\ Len(calls[r]) = 1
                /\ PayloadKind(calls[r][1]) = "SYSTEM_PROMPT"
           ELSE /\ Len(calls[r]) = 2
                /\ PayloadKind(calls[r][1]) = "propose_system"
                /\ PayloadKind(calls[r][2]) = "SYSTEM_PROMPT"

\* " No Helmet " was resolved to ["no helmet"]
C7_Witness ==
    \E r \in Reqs :
      /\ pc[r] = "done" /\ req[r].op = "analyze" /\ resp[r].status = 200
      /\ req[r].keyword = KwNoHelmet
      /\ resp[r].keywords = <<NoHelmet>>

\* C8: the keywords parsed from a model response are the first at most five
\* of the first-seen-order deduplication of its trimmed, lowercased, non-empty
\* comma-separated items; so they are at most five, lowercase, trimmed,
\* non-empty and pairwise distinct, and "No Helmet, No Helmet, Trip Hazard"
\* gives ["no helmet", "trip hazard"].
C8_ProposedKeywords ==
    kdone =>
      /\ out = FirstFive(FirstSeen(UsableItems(raw)))
      /\ Len(out) <= 5
      /\ \A i \in 1..Len(out) :
           /\ out[i] # <<>>
           /\ out[i] = Lower(out[i])
           /\ out[i] = Trimmed(out[i])
           /\ \A j \in 1..Len(out) : out[i] = out[j] => i = j
      /\ raw = ReplyHelmets => out = <<NoHelmet, TripHazard>>

\* a response of seven distinct items and a repeat was cut to its first five
C8_Witness ==
    /\ kdone
    /\ raw = ReplySeven
    /\ out = <<<<"a">>, <<"b">>, <<"c">>, <<"d">>, <<"e">>>>

C9_WriteOnceStep ==
    \A id \in DOMAIN sessions \cap DOMAIN sessions' :
      /\ sessions'[id].session_id = sessions[id].session_id
      /\ sessions'[id].image_path = sessions[id].image_path
      /\ sessions'[id].image_b64 = sessions[id].image_b64
      /\ sessions'[id].keywords = sessions[id].keywords
      /\ sessions'[id].description = sessions[id].description

\* C9: no step changes the id, the image path, the normalized image, the
\* keywords or the description of a session that is in the table before and
\* after it, and every session is stored under its own id.
C9_WriteOnce ==
    [](\A id \in DOMAIN sessions : sessions[id].session_id = id)
    /\ [][C9_WriteOnceStep]_vars

\* two sessions are active, one has a chat turn and a failed chat call behind it
C9_Witness ==
    \E id \in DOMAIN sessions, r \in Reqs :
      /\ Cardinality(DOMAIN sessions) = 2
      /\ Len(sessions[id].chat_history) = 2
      /\ pc[r] = "done" /\ req[r].op = "chat" /\ req[r].session_id = id
      /\ resp[r].status = 500

\* C10: in every state no chat history has two consecutive entries of one
\* role, and each assistant entry directly follows the user entry whose
\* message it answers.
C10_AppendsDoNotInterleave ==
    \A id \in DOMAIN sessions :
      LET h == sessions[id].chat_history
      IN  /\ \A i \in 1..(Len(h) - 1) : h[i].role # h[i + 1].role
          /\ \A i \in 1..Len(h) :
               h[i].role = "assistant" =>
                 /\ i > 1
                 /\ h[i - 1].role = "user"
                 /\ h[i].content = <<"r", ":">> \o h[i - 1].content

\* a chat handler is between its two appends on a session that has a turn
\* already, while another request waits for the event loop
C10_Witness ==
    \E r \in Reqs :
      /\ pc[r] = "c_assistant"
      /\ waiting > 0
      /\ req[r].session_id \in DOMAIN sessions
      /\ Len(sessions[req[r].session_id].chat_history) = 3

\* handler r is at a call of the vision model: llm.invoke has been entered
\* and has yet to return
AtModelCall(r) ==
    \/ pc[r] \in {"a_describe", "c_invoke"}
    \/ pc[r] = "a_keywords" /\ Blank(req[r].keyword)

\* the session id handler r works on
SessionAt(r) == IF req[r].op = "analyze" THEN loc[r].session_id ELSE req[r].session_id

\* a waiting request for a session other than that of handler r is taken up
OtherSessionAccepted(r) ==
    \E x \in Reqs \ {r} : Accept(x) /\ req'[x].session_id # SessionAt(r)

\* C11: whenever a handler is at a model call and a request waits, a request
\* for a different session id can be taken up and take its steps: the model
\* call does not hold the event loop against unrelated sessions.
C11_OtherSessionsNotBlocked ==
    \A r \in Reqs :
      (AtModelCall(r) /\ waiting > 0) => ENABLED OtherSessionAccepted(r)

\* the items written one after the other with ", " between them
RECURSIVE CommaList(_)
CommaList(items) ==
    IF Len(items) = 0 THEN <<>>
    ELSE IF Len(items) = 1 THEN items[1]
    ELSE CommaList(SubSeq(items, 1, Len(items) - 1)) \o <<",", " ">> \o items[Len(items)]

\* chat handler r hands a payload to the model in this step
Sends(r) == req[r].op = "chat" /\ calls'[r] # calls[r] /\ calls'[r] # <<>>

\* the payload handed over last by r after this step
Sent(r) == calls'[r][Len(calls'[r])]

C12_PayloadStep ==
    \A r \in Reqs :
      Sends(r) =>
        /\ req[r].session_id \in DOMAIN sessions
        /\ LET s == sessions[req[r].session_id]
               h == s.chat_history
               p == Sent(r)
               n == Len(p)
           IN  /\ n = Len(h) + 3
               /\ p[1].role = "system"
               /\ p[1].content = [tmpl |-> "CHAT_SYSTEM_PROMPT", args |-> <<>>]
               /\ p[2].content =
                    [tmpl |-> "recap", args |-> <<CommaList(s.keywords), s.description>>]
               /\ \A i \in 1..Len(h) :
                    p[i + 2].content = [tmpl |-> "text", args |-> <<h[i].content>>]
               /\ p[n].role = "human"
               /\ p[n].content = [tmpl |-> "text", args |-> <<req[r].message>>]
               /\ s.image_b64 # NoImage
               /\ \A i \in 1..n : p[i].image = IF i = n THEN s.image_b64 ELSE NoImage

C12_AnchorStep ==
    \A id \in DOMAIN sessions \cap DOMAIN sessions' :
      /\ sessions'[id].image_b64 = sessions[id].image_b64
      /\ sessions'[id].keywords = sessions[id].keywords
      /\ sessions'[id].description = sessions[id].description

\* C12: every payload a chat call hands to the model is, in order, the persona
\* system instruction, one recap of the session's stored keywords and
\* description, the stored chat_history entries in their order, and the new
\* user message with the stored normalized image; it has len(chat_history) + 3
\* messages and the image only in its last one; and no step changes the stored
\* image, keywords or description, so image and recap are the same in every
\* chat call of a session.
C12_AnchoredChatPayload == [][C12_PayloadStep /\ C12_AnchorStep]_vars

\* a chat call on a session with one turn behind it sent five messages
C12_Witness ==
    \E r \in Reqs :
      /\ pc[r] = "done" /\ req[r].op = "chat" /\ resp[r].status = 200
      /\ Len(calls[r]) = 1
      /\ Len(calls[r][1]) = 5
      /\ Len(resp[r].chat_history) = 4

\* the role a stored entry is to be replayed with
ReplayRole(entry) == IF entry.role = "user" THEN "human" ELSE "ai"

C13_ReplayRolesStep ==
    \A r \in Reqs :
      (Sends(r) /\ req[r].session_id \in DOMAIN sessions) =>
        LET h == sessions[req[r].session_id].chat_history
            p == Sent(r)
        IN  /\ \A i \in 1..Len(h) :
                 (i + 2 < Len(p)) => p[i + 2].role = ReplayRole(h[i])
            /\ \A i \in 1..Len(p) : p[i].role = "system" => i = 1

\* C13: in every payload a chat call hands to the model, each stored user
\* entry is replayed as a user-role message and each stored assistant entry as
\* an assistant-role message, and the only system-role message is the first.
C13_ReplayRolesAlternate == [][C13_ReplayRolesStep]_vars

\* delete handler r fails at the removal of the file in this step
RemoveFails(r) ==
    req[r].op = "delete" /\ pc[r] = "d_remove" /\ pc'[r] = "done" /\ resp'[r].status # 200

C14_RemoveFailureStep ==
    \A r \in Reqs :
      RemoveFails(r) =>
        /\ resp'[r].status = 500
        /\ req[r].session_id \in DOMAIN sessions'
        /\ sessions' = sessions
        /\ files' = files
        /\ sessions[req[r].session_id].image_path \in DOMAIN files'

\* a chat or delete call on an id that is in the table gets past its lookup
C14_ServedStep ==
    \A r \in Reqs :
      (pc[r] \in {"c_lookup", "d_lookup"} /\ pc'[r] # pc[r]
         /\ req[r].session_id \in DOMAIN sessions) =>
        pc'[r] \in {"c_invoke", "d_remove"}

C14_AfterRemoveFailure ==
    \A r \in Reqs :
      (pc[r] = "done" /\ req[r].op = "delete" /\ resp[r].status = 500) =>
        /\ req[r].session_id \in DOMAIN sessions
        /\ sessions[req[r].session_id].image_path \in DOMAIN files

\* C14: a delete call whose file removal fails ends with status 500 and
\* leaves the table and the files as they were, so the session is still in the
\* table with its file; and every chat or delete call on an id in the table
\* gets past its lookup, so the session still answers chat and the delete can
\* be tried again.
C14_RemoveFailureKeepsSession ==
    [](C14_AfterRemoveFailure) /\ [][C14_RemoveFailureStep /\ C14_ServedStep]_vars

\* a delete call failed on a session that has a chat turn
C14_Witness ==
    \E r \in Reqs :
      /\ pc[r] = "done" /\ req[r].op = "delete" /\ resp[r].status = 500
      /\ req[r].session_id \in DOMAIN sessions
      /\ Len(sessions[req[r].session_id].chat_history) = 2

\* delete handler r removes a file in this step
RemovesFile(r) == req[r].op = "delete" /\ pc'[r] # pc[r] /\ files' # files

\* delete handler r removes a record in this step
RemovesRecord(r) == req[r].op = "delete" /\ pc'[r] # pc[r] /\ sessions' # sessions

FilesOf(id) == {p \in DOMAIN files : p[1] = id}

\* after a delete call that succeeded on it, an id has no record and no file
C15_GoneAfterDelete ==
    /\ \A id \in deleted : id \notin DOMAIN sessions /\ FilesOf(id) = {}
    /\ \A r \in Reqs :
         (pc[r] = "done" /\ req[r].op = "delete" /\ resp[r].status = 200) =>
           req[r].session_id \in deleted

\* a handler at its lookup finds every record in the table with its file
C15_NoPartialAtLookup ==
    \A r \in Reqs :
      pc[r] \in {"c_lookup", "d_lookup"} =>
        \A id \in DOMAIN sessions : sessions[id].image_path \in DOMAIN files

C15_RecordFirstStep ==
    \A r \in Reqs : RemovesFile(r) => req[r].session_id \notin DOMAIN sessions

C15_FileFirstStep ==
    \A r \in Reqs :
      /\ RemovesRecord(r) => FilesOf(req[r].session_id) = {}
      /\ RemovesFile(r) => req[r].session_id \in DOMAIN sessions

\* C15 as stated: a delete call removes the file of a session only once the
\* record is out of the table; after a successful delete the id has neither
\* record nor file; and no handler at its lookup finds a record without file.
C15_RecordThenFile ==
    [](C15_GoneAfterDelete /\ C15_NoPartialAtLookup) /\ [][C15_RecordFirstStep]_vars

\* C15 amended: a delete call removes the file while the record is still in
\* the table and removes the record only once the file is gone; after a
\* successful delete the id has neither record nor file; and no handler at its
\* lookup finds a record without file.
C15_FileThenRecord ==
    [](C15_GoneAfterDelete /\ C15_NoPartialAtLookup) /\ [][C15_FileFirstStep]_vars

\* a session with a chat turn was deleted while another session is active
C15_Witness ==
    \E r \in Reqs :
      /\ pc[r] = "done" /\ req[r].op = "delete" /\ resp[r].status = 200
      /\ chatOk[req[r].session_id] = 1
      /\ FilesOf(req[r].session_id) = {}
      /\ req[r].session_id \notin DOMAIN sessions
      /\ DOMAIN sessions # {}

\* analyze handler r asked for a proposal and the response held no usable item
NothingProposed(r) ==
    /\ req[r].op = "analyze" /\ Blank(req[r].keyword)
    /\ pc[r] \in {"a_parse", "a_describe", "a_commit"}
    /\ UsableItems(loc[r].raw) = <<>>

\* the keyword text of a description payload
KeywordText(payload) == payload[Len(payload)].content.args[1]

C16_NoFallbackStep ==
    \A r \in Reqs :
      (NothingProposed(r) /\ pc'[r] # pc[r]) =>
        CASE pc[r] = "a_parse" ->
               /\ pc'[r] = "a_describe"
               /\ loc'[r].keywords = <<>>
          [] pc[r] = "a_describe" ->
               /\ loc[r].keywords = <<>>
               /\ Len(calls'[r]) = Len(calls[r]) + 1
               /\ PayloadKind(calls'[r][Len(calls'[r])]) = "SYSTEM_PROMPT"
               /\ KeywordText(calls'[r][Len(calls'[r])]) = <<"n", "o", "n", "e">>
          [] OTHER ->
               /\ pc'[r] = "done"
               /\ resp'[r].status = 200
               /\ resp'[r].keywords = <<>>
               /\ resp'[r].session_id \in DOMAIN sessions' \ DOMAIN sessions
               /\ sessions'[resp'[r].session_id].keywords = <<>>

\* C16: an analyze call with an empty or blank keyword whose proposal response
\* holds no usable item does not fail on it and goes on with keywords = [];
\* its description call is made with the marker "none" as the keyword text;
\* and when that call answers, a session with keywords = [] is created and []
\* is returned.
C16_EmptyProposalIsValid == [][C16_NoFallbackStep]_vars

\* a session was created with no keywords after a proposal of commas and blanks
C16_Witness ==
    \E r \in Reqs :
      /\ pc[r] = "done" /\ req[r].op = "analyze" /\ resp[r].status = 200
      /\ req[r].keyword = <<>>
      /\ resp[r].keywords = <<>>
      /\ Len(calls[r]) = 2
      /\ KeywordText(calls[r][2]) = <<"n", "o", "n", "e">>
      /\ sessions[resp[r].session_id].keywords = <<>>

\* handler r runs the normalizer in this step: it gets hold of a normalized image
Normalizes(r) == loc'[r].image_b64 # loc[r].image_b64 /\ loc'[r].image_b64 # NoImage

\* handler r calls the model in this step
Calls(r) == calls'[r] # calls[r] /\ calls'[r] # <<>>

\* the images of a payload, message by message, without the messages that have none
ImagesIn(payload) ==
    Pick([i \in 1..Len(payload) |-> payload[i].image],
         {i \in 1..Len(payload) : payload[i].image # NoImage})

C17_NormalizeStep ==
    \A r \in Reqs :
      Normalizes(r) =>
        /\ req[r].op = "analyze"
        /\ loc[r].image_b64 = NoImage
        /\ calls[r] = <<>>
        /\ loc[r].session_id \notin DOMAIN sessions
        /\ loc'[r].image_b64.fmt = "PNG" /\ loc'[r].image_b64.mode = "RGB"
        /\ loc'[r].image_b64.pix = files[loc[r].image_path].pix

C17_CarryStep ==
    \A r \in Reqs :
      Calls(r) =>
        LET stored == IF req[r].op = "analyze"
                      THEN loc[r].image_b64
                      ELSE sessions[req[r].session_id].image_b64
        IN  /\ stored # NoImage
            /\ ImagesIn(calls'[r][Len(calls'[r])]) = <<stored>>

C17_StoreStep ==
    \A id \in DOMAIN sessions' \ DOMAIN sessions :
      \E r \in Reqs :
        /\ req[r].op = "analyze" /\ loc[r].session_id = id
        /\ loc[r].image_b64 # NoImage
        /\ sessions'[id].image_b64 = loc[r].image_b64

\* C17: the normalizer runs only in an analyze call, once, before any model
\* call of it and before its session is in the table; the session is stored
\* with that normalized image; no chat or delete call ever holds a normalized
\* image of its own; and every payload handed to the model by the proposal,
\* the description and each chat call carries exactly that image, once.
C17_NormalizedOnce ==
    /\ [](\A r \in Reqs : req[r].op # "analyze" => loc[r].image_b64 = NoImage)
    /\ [][C17_NormalizeStep /\ C17_CarryStep /\ C17_StoreStep]_vars

\* the second chat call on a session carried the image normalized at analyze,
\* whose proposal and description calls had carried it too
C17_Witness ==
    \E r \in Reqs :
      /\ pc[r] = "done" /\ req[r].op = "chat" /\ resp[r].status = 200
      /\ Len(resp[r].chat_history) = 4
      /\ sessions[req[r].session_id].keywords = <<NoHelmet, TripHazard>>
      /\ ImagesIn(calls[r][1]) = <<sessions[req[r].session_id].image_b64>>

C18_NotYetVisible ==
    \A r \in Reqs :
      (req[r].op = "analyze" /\ pc[r] \in HandlerPcs) =>
        loc[r].session_id \notin DOMAIN sessions

C18_CommitStep ==
    \A id \in DOMAIN sessions' \ DOMAIN sessions :
      /\ \E r \in Reqs :
           /\ req[r].op = "analyze" /\ Ends(r)
           /\ resp'[r].status = 200
           /\ resp'[r].session_id = id
           /\ sessions'[id].keywords = resp'[r].keywords
           /\ sessions'[id].description = resp'[r].description
           /\ sessions'[id].chat_history = <<>>
      /\ \A other \in DOMAIN sessions :
           other \in DOMAIN sessions' /\ sessions'[other] = sessions[other]

C18_FailureStep ==
    \A r \in Reqs :
      (req[r].op = "analyze" /\ Ends(r)) =>
        IF resp'[r].status = 200
        THEN DOMAIN sessions' = DOMAIN sessions \cup {resp'[r].session_id}
        ELSE sessions' = sessions

\* C18: the id of an analyze call at work is not in the table; an id enters
\* the table only in the step in which its analyze call returns 200, with the
\* keywords and description returned and an empty chat_history, the other
\* sessions untouched; and an analyze call that ends otherwise, whichever of
\* its steps failed, leaves the table as it was.
C18_VisibleAtCommitOnly ==
    [](C18_NotYetVisible) /\ [][C18_CommitStep /\ C18_FailureStep]_vars

\* an analyze call failed at its description call, after its proposal call,
\* beside a session that has a chat turn
C18_Witness ==
    \E r \in Reqs, id \in DOMAIN sessions :
      /\ pc[r] = "done" /\ req[r].op = "analyze" /\ resp[r].status = 500
      /\ Len(calls[r]) = 2
      /\ Cardinality(DOMAIN sessions) = 1
      /\ Cardinality(used) = 2
      /\ Len(sessions[id].chat_history) = 2

\* chat or delete handler r takes a step
ActsOnSession(r) ==
    req[r].op \in {"chat", "delete"} /\ pc[r] \in HandlerPcs /\ pc'[r] # pc[r]

\* the texts a chat call on session s with this message may hand to the model
OwnTexts(s, message) ==
    {CommaList(s.keywords), s.description, message}
    \cup {s.chat_history[i].content : i \in 1..Len(s.chat_history)}

C19_FrameStep ==
    \A r \in Reqs :
      ActsOnSession(r) =>
        /\ \A b \in DOMAIN sessions \ {req[r].session_id} :
             b \in DOMAIN sessions' /\ sessions'[b] = sessions[b]
        /\ DOMAIN sessions' \subseteq DOMAIN sessions
        /\ \A p \in DOMAIN files :
             p[1] # req[r].session_id => p \in DOMAIN files' /\ files'[p] = files[p]
        /\ DOMAIN files' \subseteq DOMAIN files

C19_ContextStep ==
    \A r \in Reqs :
      (Sends(r) /\ req[r].session_id \in DOMAIN sessions) =>
        LET s == sessions[req[r].session_id]
            p == Sent(r)
        IN  \A i \in 1..Len(p) :
              /\ p[i].image \in {NoImage, s.image_b64}
              /\ \A k \in 1..Len(p[i].content.args) :
                   p[i].content.args[k] \in OwnTexts(s, req[r].message)

\* C19: a step of a chat or delete call on session id A leaves the record of
\* every other session in the table and every file that is not A's as they
\* were, and adds no record and no file; and every image and every text in the
\* payload a chat call on A hands to the model is A's stored image, A's
\* keywords, description or history entries, or the message of the call.
C19_SessionsIsolated == [][C19_FrameStep /\ C19_ContextStep]_vars

\* a chat call was answered on a session beside a session that has a turn of
\* its own and differs from it in image, keywords and history
C19_Witness ==
    \E r \in Reqs, b \in DOMAIN sessions :
      /\ pc[r] = "done" /\ req[r].op = "chat" /\ resp[r].status = 200
      /\ Len(calls[r]) = 1
      /\ b # req[r].session_id
      /\ LET a == sessions[req[r].session_id]
         IN  /\ sessions[b].image_b64 # a.image_b64
             /\ sessions[b].keywords # a.keywords
             /\ sessions[b].chat_history # <<>>
             /\ sessions[b].chat_history[1] # a.chat_history[1]

====
